---- MODULE Spec2Model ----
(***************************************************************************)
(* Forge Overlay core (src/_misc/forge-overlay-core.js): the hash-chained, *)
(* append-only local event log, its replay (rebuildFromZero), audit        *)
(* (verify), export/import and the session driver (init, log, heartbeat).  *)
(*                                                                         *)
(* Strings are sequences of character codes, so that concatenation,        *)
(* slice(0,10), JSON.stringify and the XOR fallback digest are computed as *)
(* the code computes them.  xp is kept in tenths (the code adds 0.1).      *)
(***************************************************************************)
EXTENDS Integers, Sequences, FiniteSets, TLC

\* ---------------------------------------------------------------- bounds
MaxEvents == 2     \* records the store may hold
MaxStreak == 4     \* records the store may hold in the streak specification
MaxTasks  == 2     \* appendEvent invocations that may be in flight together
MaxInits  == 2     \* init calls on one page load

\* ------------------------------------------------------- string literals
GENESIS      == <<71, 69, 78, 69, 83, 73, 83>>                 \* 'GENESIS'
S_xp         == <<120, 112>>                                   \* 'xp'
S_heartbeat  == <<104, 101, 97, 114, 116, 98, 101, 97, 116>>   \* 'heartbeat'
S_click      == <<99, 108, 105, 99, 107>>                      \* 'click'
S_quest      == <<113, 117, 101, 115, 116, 58, 99, 111, 109, 112, 108, 101, 116, 101>> \* 'quest:complete'
S_focus      == <<102, 111, 99, 117, 115>>                     \* 'focus'
S_app        == <<97, 112, 112>>                               \* options.appId 'app'
S_anon       == <<97, 110, 111, 110>>                          \* options.profileId 'anon'
S_bar        == <<124>>                                        \* '|'
S_empty      == << >>                                          \* ''
J_type       == <<123, 34, 116, 121, 112, 101, 34, 58, 34>>    \* {"type":"
J_data       == <<34, 44, 34, 100, 97, 116, 97, 34, 58>>       \* ","data":
J_t          == <<44, 34, 116, 34, 58, 34>>                    \* ,"t":"
J_appId      == <<34, 44, 34, 97, 112, 112, 73, 100, 34, 58, 34>>  \* ","appId":"
J_profileId  == <<34, 44, 34, 112, 114, 111, 102, 105, 108, 101, 73, 100, 34, 58, 34>> \* ","profileId":"
J_end        == <<34, 125>>                                    \* "}
J_obj0       == <<123, 125>>                                   \* {}
J_amount     == <<123, 34, 97, 109, 111, 117, 110, 116, 34, 58>>  \* {"amount":
J_close      == <<125>>                                        \* }
J_path       == <<123, 34, 112, 97, 116, 104, 34, 58, 34, 47, 34, 125>> \* {"path":"/"}
IsoPrefix    == <<50, 48, 50, 53, 45, 48, 49, 45>>             \* 2025-01-
IsoSuffix    == <<84, 48, 48, 58, 48, 48, 58, 48, 48, 46, 48, 48, 48, 90>> \* T00:00:00.000Z

\* ------------------------------------------------------------ input sets
Days      == {12, 13}                       \* day of month the wall clock may show
Nonces    == {<<107, 51>>}                  \* 'k3' (Math.random().toString(36).slice(2))
Amounts   == {3, 5}                         \* data.amount values passed to log("xp", ...)

\* data objects: {} | {amount: n} | {path: location.pathname}
DataNone       == [kind |-> "none",   amount |-> 0]
DataAmount(n)  == [kind |-> "amount", amount |-> n]
DataPath       == [kind |-> "path",   amount |-> 0]

\* ------------------------------------------------------ number -> string
Digit(d) == 48 + d

RECURSIVE NatStr(_)
NatStr(n) == IF n < 10 THEN <<Digit(n)>> ELSE NatStr(n \div 10) \o <<Digit(n % 10)>>

NumStr(n) == IF n < 0 THEN <<45>> \o NatStr(0 - n) ELSE NatStr(n)

Pad2(n) == IF n < 10 THEN <<48>> \o NatStr(n) ELSE NatStr(n)

\* now(): new Date().toISOString() with the wall clock on day d
now(d) == IsoPrefix \o Pad2(d) \o IsoSuffix

slice(s, from, to) == SubSeq(s, from + 1, IF to < Len(s) THEN to ELSE Len(s))

\* ------------------------------------------------------------ JSON.stringify
stringifyData(data) ==
    CASE data.kind = "none"   -> J_obj0
      [] data.kind = "amount" -> J_amount \o NumStr(data.amount) \o J_close
      [] data.kind = "path"   -> J_path

\* JSON.stringify({type, data, t, appId, profileId}) in that key order
stringify(e) ==
    J_type \o e.type \o J_data \o stringifyData(e.data) \o J_t \o e.t
           \o J_appId \o e.appId \o J_profileId \o e.profileId \o J_end

\* ------------------------------------------------------------- sha256Hex
\* a ^ b, bit by bit
RECURSIVE XorBits(_, _)
XorBits(a, b) == IF a = 0 THEN b
                 ELSE IF b = 0 THEN a
                 ELSE ((a + b) % 2) + 2 * XorBits(a \div 2, b \div 2)

\* the same on bytes, tabulated once
XorByte == [a \in 0..255 |-> [b \in 0..255 |-> XorBits(a, b)]]

\* a ^ b for 16-bit code units (charCodeAt) and their XOR
Xor(a, b) == XorByte[a % 256][b % 256] + 256 * XorByte[a \div 256][b \div 256]

\* let h = 0; for (i...) h = (h ^ str.charCodeAt(i)) >>> 0, over i in lo..hi;
\* XOR is associative and 0 its unit, so the fold is evaluated as a balanced tree
RECURSIVE XorRange(_, _, _)
XorRange(str, lo, hi) ==
    IF lo > hi THEN 0
    ELSE IF lo = hi THEN str[lo]
    ELSE LET mid == (lo + hi) \div 2
         IN Xor(XorRange(str, lo, mid), XorRange(str, mid + 1, hi))

XorFold(str) == XorRange(str, 1, Len(str))

HexDigit(d) == IF d < 10 THEN 48 + d ELSE 87 + d

\* ('00000000' + h.toString(16)).slice(-8).padEnd(64, '0')
WeakHex(h) == [k \in 1..64 |->
                 IF k <= 8 THEN HexDigit((h \div (16 ^ (8 - k))) % 16) ELSE 48]

\* SHA-256 is idealised as collision free: the digest determines its input.
ShaTag == 0
StrongHex(str) == <<ShaTag>> \o str

sha256Hex(subtle, str) ==
    IF subtle THEN StrongHex(str) ELSE WeakHex(XorFold(str))


\* ------------------------------------------------------- engine and stores
\* state = { xp, streak, lastAt, events, rootHash }; xp in tenths
ZeroState == [xp |-> 0, streak |-> 0, lastAt |-> 0, events |-> 0, rootHash |-> GENESIS]

\* the metadata slot: absent, or a snapshot { lastHash, state }
NoMeta == [present |-> FALSE, lastHash |-> GENESIS, state |-> ZeroState]
Meta(lastHash, state) == [present |-> TRUE, lastHash |-> lastHash, state |-> state]

\* a snapshot that no replay of an empty store would produce
StaleMeta == Meta(<<ShaTag, 120>>,
                  [xp |-> 21, streak |-> 3, lastAt |-> 0, events |-> 4,
                   rootHash |-> <<ShaTag, 120>>])

EmptyIdb == [events |-> << >>, nextKey |-> 1, meta |-> NoMeta]
EmptyLs  == [events |-> << >>, meta |-> NoMeta]

\* The engine closure after the module is evaluated (lines 112-117), together
\* with the two persistent backends and the host's capabilities.
FreshEngine(idbMode, subtle, idb, ls) ==
    [ idbMode   |-> idbMode,     \* 'indexedDB' in window / open succeeds / open fails
      subtle    |-> subtle,      \* window.crypto.subtle present
      db        |-> FALSE,       \* db handle (FALSE: null)
      lastHash  |-> GENESIS,
      state     |-> ZeroState,
      heartbeat |-> FALSE,       \* interval handle held in `heartbeat`
      timers    |-> 0,           \* interval timers active in the page
      listeners |-> 0,           \* visibilitychange listeners registered
      idb       |-> idb,
      ls        |-> ls ]

Entry(type, data, t) ==
    [type |-> type, data |-> data, t |-> t, appId |-> S_app, profileId |-> S_anon]

Rec(entry, prev, nonce, hash) ==
    [type |-> entry.type, data |-> entry.data, t |-> entry.t,
     appId |-> entry.appId, profileId |-> entry.profileId,
     prev |-> prev, nonce |-> nonce, hash |-> hash,
     id |-> 0]                   \* id 0: the record carries no id key

\* ---- IndexedDB object store 'events' (keyPath 'id', autoIncrement)
RECURSIVE InsertByKey(_, _)
InsertByKey(events, value) ==
    IF events = << >> THEN <<value>>
    ELSE IF Head(events).id = value.id THEN <<value>> \o Tail(events)
    ELSE IF Head(events).id > value.id THEN <<value>> \o events
    ELSE <<Head(events)>> \o InsertByKey(Tail(events), value)

\* store.put(value): a value without id gets the next generated key; a value
\* with an id is stored under that key, replacing the record that has it
idbPut(idb, value) ==
    IF value.id = 0
    THEN [idb EXCEPT !.events = Append(@, [value EXCEPT !.id = idb.nextKey]),
                     !.nextKey = @ + 1]
    ELSE [idb EXCEPT !.events = InsertByKey(@, value),
                     !.nextKey = IF value.id >= @ THEN value.id + 1 ELSE @]

\* db ? idbPut(db, STORE, rec) : (arr = lsRead(...); arr.push(rec); lsWrite(...))
putEvent(w, rec) ==
    IF w.db THEN [w EXCEPT !.idb = idbPut(@, rec)]
    ELSE [w EXCEPT !.ls.events = Append(@, rec)]

\* db ? idbGetAll(db, STORE) : lsRead(LS_KEY_EVENTS, [])
getAll(w) == IF w.db THEN w.idb.events ELSE w.ls.events

getMeta(w) == IF w.db THEN w.idb.meta ELSE w.ls.meta

loadMeta(w) ==
    LET meta == getMeta(w) IN
    [w EXCEPT !.state    = IF meta.present THEN meta.state ELSE @,
              !.lastHash = IF meta.present /\ meta.lastHash # S_empty
                           THEN meta.lastHash ELSE GENESIS]

saveMeta(w) ==
    LET meta == Meta(w.lastHash, w.state) IN
    IF w.db THEN [w EXCEPT !.idb.meta = meta] ELSE [w EXCEPT !.ls.meta = meta]

\* -------------------------------------------------------------- appendEvent
\* line 193-195: the digest input is built from lastHash as it is at the call
appendEvent_digest(w, entry, nonce) ==
    sha256Hex(w.subtle, w.lastHash \o S_bar \o stringify(entry) \o S_bar \o nonce)

\* line 196-200: after the digest resolves, rec.prev is lastHash as it is now
appendEvent_put(w, entry, nonce, hash) ==
    putEvent(w, Rec(entry, w.lastHash, nonce, hash))

\* variant: the head kept in lastHash is not advanced
appendEvent_commit_staleHead(w, hash) ==
    saveMeta([w EXCEPT !.state.rootHash = hash,
                       !.state.events = @ + 1])

\* line 201-202
appendEvent_commit(w, hash) ==
    saveMeta([w EXCEPT !.lastHash = hash,
                       !.state.rootHash = hash,
                       !.state.events = @ + 1])

\* one appendEvent running from call to return with nothing in between
appendEvent(w, entry, nonce) ==
    LET hash == appendEvent_digest(w, entry, nonce) IN
    appendEvent_commit(appendEvent_put(w, entry, nonce, hash), hash)

\* line 237: the bump log applies after appendEvent returned
log_bump(w, type) ==
    IF type = S_click \/ type = S_quest THEN [w EXCEPT !.state.xp = @ + 10] ELSE w

log(w, type, data, t, nonce) ==
    log_bump(appendEvent(w, Entry(type, data, t), nonce), type)

\* line 248: the bump of the heartbeat callback
tick_bump(w) == [w EXCEPT !.state.xp = @ + 1]

\* variant: the callback appends whatever document.visibilityState is
heartbeatTick_always(w, visible, t, nonce) ==
    tick_bump(appendEvent(w, Entry(S_heartbeat, DataPath, t), nonce))

\* the interval callback (lines 244-249)
heartbeatTick(w, visible, t, nonce) ==
    IF ~visible THEN w
    ELSE tick_bump(appendEvent(w, Entry(S_heartbeat, DataPath, t), nonce))


\* ---------------------------------------------------------- rebuildFromZero
NullDay == <<-1>>                \* lastDay = null: differs from every string

\* (e.data && e.data.amount) || 1, in tenths
xpAmount(e) ==
    IF e.data.kind = "amount" /\ e.data.amount # 0 THEN 10 * e.data.amount ELSE 10

\* the digest verify and the replay recompute for a stored record
recompute(subtle, e) ==
    sha256Hex(subtle, e.prev \o S_bar \o stringify(e) \o S_bar \o e.nonce)

\* variant: lastDay is never updated, so every dated record counts as a new day
RECURSIVE replayFrom_noLastDay(_, _, _, _)
replayFrom_noLastDay(subtle, entries, i, acc) ==
    IF i > Len(entries) THEN acc
    ELSE LET e == entries[i] IN
         IF e.prev # acc.prev \/ recompute(subtle, e) # e.hash
         THEN [acc EXCEPT !.ok = FALSE]
         ELSE LET day == slice(e.t, 0, 10)
                  xp1 == IF e.type = S_xp THEN acc.xp + xpAmount(e) ELSE acc.xp
                  xp2 == IF e.type = S_heartbeat THEN xp1 + 1 ELSE xp1
                  newDay == day # S_empty /\ day # acc.lastDay
              IN replayFrom_noLastDay(subtle, entries, i + 1,
                     [ok |-> acc.ok, prev |-> e.hash, xp |-> xp2,
                      streak |-> IF newDay THEN acc.streak + 1 ELSE acc.streak,
                      lastDay |-> acc.lastDay])

\* the loop of lines 215-227 from index i (1-based) on
RECURSIVE replayFrom(_, _, _, _)
replayFrom(subtle, entries, i, acc) ==
    IF i > Len(entries) THEN acc
    ELSE LET e == entries[i] IN
         IF e.prev # acc.prev \/ recompute(subtle, e) # e.hash
         THEN [acc EXCEPT !.ok = FALSE]
         ELSE LET day == slice(e.t, 0, 10)
                  xp1 == IF e.type = S_xp THEN acc.xp + xpAmount(e) ELSE acc.xp
                  xp2 == IF e.type = S_heartbeat THEN xp1 + 1 ELSE xp1
                  newDay == day # S_empty /\ day # acc.lastDay
              IN replayFrom(subtle, entries, i + 1,
                     [ok |-> acc.ok, prev |-> e.hash, xp |-> xp2,
                      streak |-> IF newDay THEN acc.streak + 1 ELSE acc.streak,
                      lastDay |-> IF newDay THEN day ELSE acc.lastDay])

replay(subtle, entries) ==
    replayFrom(subtle, entries, 1,
               [ok |-> TRUE, prev |-> GENESIS, xp |-> 0, streak |-> 0, lastDay |-> NullDay])

\* Math.round of a value held in tenths, returned in tenths
round(x10) == 10 * ((x10 + 5) \div 10)

\* variant: the replay adds to the xp already held instead of starting at 0
rebuildFromZero_accumulate(w) ==
    LET entries == getAll(w)
        r == replay(w.subtle, entries)
    IN [w   |-> saveMeta([w EXCEPT !.lastHash = r.prev,
                                   !.state.rootHash = r.prev,
                                   !.state.xp = round(w.state.xp + r.xp),
                                   !.state.streak = r.streak,
                                   !.state.events = Len(entries)]),
        res |-> [ok |-> r.ok]]

rebuildFromZero(w) ==
    LET entries == getAll(w)
        r == replay(w.subtle, entries)
    IN [w   |-> saveMeta([w EXCEPT !.lastHash = r.prev,
                                   !.state.rootHash = r.prev,
                                   !.state.xp = round(r.xp),
                                   !.state.streak = r.streak,
                                   !.state.events = Len(entries)]),
        res |-> [ok |-> r.ok]]

\* ------------------------------------------------------------------- verify
NoIndex == -1                    \* errorIndex absent from the result

\* variant: only the prev links are compared, the digest is not recomputed
RECURSIVE verifyFrom_linkOnly(_, _, _, _)
verifyFrom_linkOnly(subtle, entries, i, prev) ==
    IF i > Len(entries) THEN [ok |-> TRUE, errorIndex |-> NoIndex]
    ELSE LET e == entries[i] IN
         IF e.prev # prev
         THEN [ok |-> FALSE, errorIndex |-> i - 1]
         ELSE verifyFrom_linkOnly(subtle, entries, i + 1, e.hash)

RECURSIVE verifyFrom(_, _, _, _)
verifyFrom(subtle, entries, i, prev) ==
    IF i > Len(entries) THEN [ok |-> TRUE, errorIndex |-> NoIndex]
    ELSE LET e == entries[i] IN
         IF e.prev # prev \/ recompute(subtle, e) # e.hash
         THEN [ok |-> FALSE, errorIndex |-> i - 1]
         ELSE verifyFrom(subtle, entries, i + 1, e.hash)

verify(w) == verifyFrom(w.subtle, getAll(w), 1, GENESIS)

\* ---------------------------------------------------------------- exportLog
exportLog(w) ==
    LET entries == getAll(w) IN
    [entries  |-> entries,
     rootHash |-> w.state.rootHash,
     summary  |-> [appId |-> S_app, profileId |-> S_anon, entries |-> Len(entries),
                   xp |-> w.state.xp, streak |-> w.state.streak]]

\* ---------------------------------------------------------------- importLog
\* the argument: absent, an object without entries, or an object with entries
JsonAbsent      == [present |-> FALSE, hasEntries |-> FALSE, entries |-> << >>]
JsonNoEntries   == [present |-> TRUE,  hasEntries |-> FALSE, entries |-> << >>]
Json(entries)   == [present |-> TRUE,  hasEntries |-> TRUE,  entries |-> entries]

\* the loop of lines 277-284
RECURSIVE mergeFrom(_, _, _, _)
mergeFrom(w, entries, i, acc) ==
    IF i > Len(entries) THEN [w |-> w, merged |-> acc.merged]
    ELSE LET e == entries[i] IN
         IF e.prev = acc.prev
         THEN mergeFrom(putEvent(w, e), entries, i + 1,
                        [prev |-> e.hash, merged |-> acc.merged + 1])
         ELSE mergeFrom(w, entries, i + 1, acc)

\* variant: the walk starts from GENESIS instead of the local head
importLog_fromGenesis(w, json) ==
    IF ~json.present \/ ~json.hasEntries
    THEN [w |-> w, res |-> [ok |-> FALSE, merged |-> 0]]
    ELSE LET m == mergeFrom(w, json.entries, 1, [prev |-> GENESIS, merged |-> 0])
         IN [w |-> rebuildFromZero(m.w).w, res |-> [ok |-> TRUE, merged |-> m.merged]]

\* variant: no early return for a payload without entries
importLog_noGuard(w, json) ==
    LET m == mergeFrom(w, json.entries, 1, [prev |-> w.state.rootHash, merged |-> 0])
    IN [w |-> rebuildFromZero(m.w).w, res |-> [ok |-> TRUE, merged |-> m.merged]]

importLog(w, json) ==
    IF ~json.present \/ ~json.hasEntries
    THEN [w |-> w, res |-> [ok |-> FALSE, merged |-> 0]]
    ELSE LET m == mergeFrom(w, json.entries, 1, [prev |-> w.state.rootHash, merged |-> 0])
         IN [w |-> rebuildFromZero(m.w).w, res |-> [ok |-> TRUE, merged |-> m.merged]]

\* --------------------------------------------------------------------- init
\* openDB: null without indexedDB, the handle on success, a rejection on error
openDB(w) == [threw |-> w.idbMode = "error", db |-> w.idbMode = "ok"]

startHeartbeat(w) ==
    [w EXCEPT !.timers = (IF w.heartbeat THEN @ - 1 ELSE @) + 1,
              !.heartbeat = TRUE]

\* variant: the loaded metadata slot is trusted and the replay is skipped
init_metaOnly(w) ==
    LET o == openDB(w) IN
    IF o.threw THEN [w |-> w, res |-> [ok |-> FALSE]]
    ELSE LET w1 == loadMeta([w EXCEPT !.db = o.db])
             w2 == startHeartbeat(w1)
         IN [w |-> [w2 EXCEPT !.listeners = @ + 1], res |-> [ok |-> TRUE]]

init(w) ==
    LET o == openDB(w) IN
    IF o.threw THEN [w |-> w, res |-> [ok |-> FALSE]]
    ELSE LET w1 == rebuildFromZero(loadMeta([w EXCEPT !.db = o.db])).w
             w2 == startHeartbeat(w1)
         IN [w |-> [w2 EXCEPT !.listeners = @ + 1], res |-> [ok |-> TRUE]]

getState(w) == w.state


\* ------------------------------------------- a replay suspended at an await
\* rebuildFromZero from line 212 on, over the entries it read at lines 209-210:
\* the loop awaits sha256Hex for each record, then line 228 assigns and
\* saveMeta runs
rebuildOver(w, entries) ==
    LET r == replay(w.subtle, entries) IN
    saveMeta([w EXCEPT !.lastHash = r.prev,
                       !.state.rootHash = r.prev,
                       !.state.xp = round(r.xp),
                       !.state.streak = r.streak,
                       !.state.events = Len(entries)])

\* ------------------------------------------------- storage that refuses writes
\* A write may be refused by the host (quota exceeded, transaction error).
\* idbPut rejects (line 79); lsWrite catches the exception and returns (line 108).
putEventOn(w, rec, writable) ==
    IF writable THEN [w |-> putEvent(w, rec), threw |-> FALSE]
    ELSE [w |-> w, threw |-> w.db]

saveMetaOn(w, writable) ==
    IF writable THEN [w |-> saveMeta(w), threw |-> FALSE]
    ELSE [w |-> w, threw |-> w.db]

\* appendEvent (lines 191-204) where the record write and the metadata write
\* succeed or are refused as `writable` = <<record, metadata>> says
appendEventOn(w, entry, nonce, writable) ==
    LET hash == appendEvent_digest(w, entry, nonce)
        p == putEventOn(w, Rec(entry, w.lastHash, nonce, hash), writable[1])
    IN IF p.threw THEN [w |-> w, threw |-> TRUE]
       ELSE saveMetaOn([p.w EXCEPT !.lastHash = hash,
                                   !.state.rootHash = hash,
                                   !.state.events = @ + 1], writable[2])

\* log (lines 233-240): a rejection of appendEvent leaves line 237 unexecuted
logOn(w, type, data, t, nonce, writable) ==
    LET a == appendEventOn(w, Entry(type, data, t), nonce, writable) IN
    IF a.threw THEN a ELSE [w |-> log_bump(a.w, type), threw |-> FALSE]

\* ================================================================ the machine
VARIABLES
    idbMode, subtle,      \* host capabilities, fixed for a behaviour
    clock, visible,       \* host state: wall-clock day, document.visibilityState
    db, lastHash, state,  \* engine closure (lines 113-115)
    heartbeat, timers, listeners,
    idb, ls,              \* persistent backends
    tasks,                \* appendEvent invocations suspended at an await
    last                  \* the operation that produced this state and its result

vars == <<idbMode, subtle, clock, visible, db, lastHash, state,
          heartbeat, timers, listeners, idb, ls, tasks, last>>

World ==
    [idbMode |-> idbMode, subtle |-> subtle, db |-> db, lastHash |-> lastHash,
     state |-> state, heartbeat |-> heartbeat, timers |-> timers,
     listeners |-> listeners, idb |-> idb, ls |-> ls]

Becomes(w) ==
    /\ db' = w.db /\ lastHash' = w.lastHash /\ state' = w.state
    /\ heartbeat' = w.heartbeat /\ timers' = w.timers /\ listeners' = w.listeners
    /\ idb' = w.idb /\ ls' = w.ls
    /\ UNCHANGED <<idbMode, subtle>>

\* what `last` records: the operation, what it was given and what it returned
\* (records throughout, None where there is nothing to record)
None == [none |-> TRUE]
Op(name, arg, res) == [op |-> name, arg |-> arg, res |-> res]

Store == getAll(World)

\* what an operation found when it was called
Snapshot == [state |-> state, lastHash |-> lastHash, store |-> Store,
             meta |-> getMeta(World)]

\* (type, data) pairs passed to Forge.log
LogInputs ==
    {<<S_xp, DataAmount(n)>> : n \in Amounts}
      \cup {<<S_heartbeat, DataNone>>, <<S_click, DataPath>>}

\* The host page calls Forge.init before anything else (usage, lines 13-15),
\* and in the one-at-a-time specifications no appendEvent is suspended.
Ready == listeners > 0 /\ tasks = << >>

\* Page load with empty event stores; the metadata slot is a separate key and
\* may hold an older snapshot.  A host is <<indexedDB mode, crypto.subtle present>>.
InitWith(hosts, metas) ==
    /\ \E h \in hosts : idbMode = h[1] /\ subtle = h[2]
    /\ clock = 12
    /\ visible = TRUE
    /\ db = FALSE /\ lastHash = GENESIS /\ state = ZeroState
    /\ heartbeat = FALSE /\ timers = 0 /\ listeners = 0
    /\ \E m \in metas : /\ idb = [EmptyIdb EXCEPT !.meta = m]
                        /\ ls = [EmptyLs EXCEPT !.meta = m]
    /\ tasks = << >>
    /\ last = Op("load", None, None)

Init == InitWith({<<"ok", TRUE>>, <<"absent", TRUE>>}, {NoMeta, StaleMeta})

\* ---- host events
SetClock ==
    /\ \E d \in Days \ {clock} : clock' = d
    /\ tasks = << >>
    /\ last' = Op("clock", None, None)
    /\ UNCHANGED <<idbMode, subtle, visible, db, lastHash, state,
                   heartbeat, timers, listeners, idb, ls, tasks>>

\* the page is reloaded: the closure is re-created, the stores persist
Reload ==
    /\ tasks = << >>
    /\ Becomes(FreshEngine(idbMode, subtle, idb, ls))
    /\ last' = Op("load", None, None)
    /\ UNCHANGED <<clock, visible, tasks>>

\* ---- API calls that run to completion before the next one starts
CallInit ==
    /\ tasks = << >>
    /\ listeners = 0
    /\ LET r == init(World) IN
         /\ Becomes(r.w)
         /\ last' = Op("init", getMeta([World EXCEPT !.db = openDB(World).db]), r.res)
    /\ UNCHANGED <<clock, visible, tasks>>

CallLog(inputs, maxEvents) ==
    /\ Ready
    /\ Len(Store) < maxEvents
    /\ \E in \in inputs, nonce \in Nonces :
         /\ Becomes(log(World, in[1], in[2], now(clock), nonce))
         /\ last' = Op("log", [type |-> in[1], data |-> in[2]], None)
    /\ UNCHANGED <<clock, visible, tasks>>

\* the interval callback fires
Tick(maxEvents) ==
    /\ Ready
    /\ timers > 0
    /\ visible => Len(Store) < maxEvents
    /\ \E nonce \in Nonces :
         Becomes(heartbeatTick(World, visible, now(clock), nonce))
    /\ last' = Op("tick", [visible |-> visible], None)
    /\ UNCHANGED <<clock, visible, tasks>>

\* visibilitychange: the listener init registered logs 'focus' when visible
VisibilityChange(maxEvents) ==
    /\ Ready
    /\ listeners = 1
    /\ visible' = ~visible
    /\ IF visible'
       THEN /\ Len(Store) < maxEvents
            /\ \E nonce \in Nonces :
                 Becomes(log(World, S_focus, DataPath, now(clock), nonce))
       ELSE Becomes(World)
    /\ last' = Op("visibility", [visible |-> visible'], None)
    /\ UNCHANGED <<clock, tasks>>

CallRebuild ==
    /\ Ready
    /\ LET r == rebuildFromZero(World) IN
         /\ Becomes(r.w)
         /\ last' = Op("rebuildFromZero", [prevOp |-> last.op, pre |-> Snapshot], r.res)
    /\ UNCHANGED <<clock, visible, tasks>>

\* variant: the audit is run through the replay, which assigns what it derives
CallVerify_viaReplay ==
    /\ Ready
    /\ Becomes(rebuildFromZero(World).w)
    /\ last' = Op("verify", None, verify(World))
    /\ UNCHANGED <<clock, visible, tasks>>

CallVerify ==
    /\ Ready
    /\ last' = Op("verify", None, verify(World))
    /\ UNCHANGED <<idbMode, subtle, clock, visible, db, lastHash, state,
                   heartbeat, timers, listeners, idb, ls, tasks>>

CallExport ==
    /\ Ready
    /\ last' = Op("exportLog", None, exportLog(World))
    /\ UNCHANGED <<idbMode, subtle, clock, visible, db, lastHash, state,
                   heartbeat, timers, listeners, idb, ls, tasks>>

\* ---- payloads handed to importLog
\* a record another engine appended on top of head `prev`
PeerRec(prev, id) ==
    LET e == Entry(S_xp, DataAmount(5), now(12))
        nonce == <<107, 51>>
    IN [Rec(e, prev, nonce,
            sha256Hex(subtle, prev \o S_bar \o stringify(e) \o S_bar \o nonce))
        EXCEPT !.id = id]

\* a record that names head `prev` but whose hash is not its digest
ForgedRec(prev) == [PeerRec(prev, 0) EXCEPT !.hash = WeakHex(0)]

ImportPayloads ==
    LET head == state.rootHash
        mine == Store
        nextId == IF db THEN Len(mine) + 1 ELSE 0
    IN { JsonAbsent, JsonNoEntries, Json(<< >>),
         Json(<<PeerRec(head, 0)>>),
         Json(<<PeerRec(GENESIS, 0)>>),
         Json(<<PeerRec(GENESIS, 0), PeerRec(head, 0)>>),
         Json(mine \o <<PeerRec(head, nextId)>>),
         Json(<<PeerRec(head, 1)>>),           \* carries the key of the first record
         Json(<<ForgedRec(head)>>) }

CallImport(maxEvents) ==
    /\ Ready
    /\ \E json \in ImportPayloads :
         LET r == importLog(World, json) IN
           /\ Len(getAll(r.w)) <= maxEvents
           /\ Becomes(r.w)
           /\ last' = Op("importLog", [json |-> json, pre |-> Snapshot], r.res)
    /\ UNCHANGED <<clock, visible, tasks>>

\* exportLog() here, importLog(result) on a fresh engine over empty stores
RoundTrip ==
    /\ Ready
    /\ LET json == exportLog(World)
           peer == init(FreshEngine(idbMode, subtle, EmptyIdb, EmptyLs)).w
           r == importLog(peer, Json(json.entries))
       IN last' = Op("roundTrip", getState(World), getState(r.w))
    /\ UNCHANGED <<idbMode, subtle, clock, visible, db, lastHash, state,
                   heartbeat, timers, listeners, idb, ls, tasks>>

\* ---- specifications
\* appends only: init, log, heartbeat ticks and focus events, one at a time
InitAppend == InitWith({<<"ok", TRUE>>, <<"absent", TRUE>>, <<"ok", FALSE>>}, {NoMeta})

NextAppend ==
    \/ CallInit
    \/ CallLog(LogInputs, MaxEvents)
    \/ Tick(MaxEvents)
    \/ Reload
    \/ CallVerify
    \/ RoundTrip
    \/ VisibilityChange(MaxEvents)

SpecAppend == InitAppend /\ [][NextAppend]_vars

\* every operation, one at a time (SHA-256 available)
Next ==
    \/ CallInit
    \/ CallLog({<<S_xp, DataAmount(5)>>, <<S_click, DataPath>>}, MaxEvents)
    \/ Tick(MaxEvents)
    \/ Reload
    \/ CallVerify \/ CallExport \/ CallRebuild \/ CallImport(MaxEvents) \/ RoundTrip

Spec == Init /\ [][Next]_vars


\* streak: one record type, the wall clock moves between log calls
InitStreak == InitWith({<<"ok", TRUE>>}, {NoMeta})

NextStreak ==
    \/ CallInit
    \/ CallLog({<<S_click, DataPath>>}, MaxStreak)
    \/ CallRebuild
    \/ SetClock

SpecStreak == InitStreak /\ [][NextStreak]_vars

\* ---- a stored record is edited behind the engine's back
OtherNonce == <<51, 107>>        \* '3k'

\* the values an edit may put into one field of record e, hash left alone
Edits(e) ==
    {[e EXCEPT !.type = ty] : ty \in {S_xp, S_click} \ {e.type}}
      \cup {[e EXCEPT !.data = d] : d \in {DataAmount(50), DataNone} \ {e.data}}
      \cup {[e EXCEPT !.t = now(21)]}
      \cup {[e EXCEPT !.nonce = OtherNonce]}

setStore(w, es) ==
    IF w.db THEN [w EXCEPT !.idb.events = es] ELSE [w EXCEPT !.ls.events = es]

Tamper ==
    /\ Ready
    /\ last.op # "tamper"
    /\ verify(World).ok
    /\ \E i \in 1..Len(Store) : \E e \in Edits(Store[i]) :
         /\ Becomes(setStore(World, [Store EXCEPT ![i] = e]))
         /\ last' = Op("tamper", [index |-> i - 1, before |-> Store[i]], None)
    /\ UNCHANGED <<clock, visible, tasks>>

InitTamper == InitWith({<<"ok", TRUE>>, <<"absent", TRUE>>, <<"absent", FALSE>>}, {NoMeta})

NextTamper ==
    \/ CallInit
    \/ CallLog({<<S_xp, DataAmount(5)>>, <<S_click, DataPath>>}, MaxEvents)
    \/ Tamper
    \/ CallVerify

SpecTamper == InitTamper /\ [][NextTamper]_vars

\* ---- appendEvent invocations that overlap at their awaits
Task(kind, entry, nonce, hash) ==
    [kind |-> kind, entry |-> entry, nonce |-> nonce, hash |-> hash, pc |-> "digest"]

Remove(seq, i) == SubSeq(seq, 1, i - 1) \o SubSeq(seq, i + 1, Len(seq))

CanStart ==
    /\ listeners > 0
    /\ Len(tasks) < MaxTasks
    /\ Len(Store) + Len(tasks) < MaxEvents

\* log(): the entry is built and appendEvent runs up to `await sha256Hex(...)`
StartLog(inputs) ==
    /\ CanStart
    /\ \E in \in inputs, nonce \in Nonces :
         LET entry == Entry(in[1], in[2], now(clock)) IN
         tasks' = Append(tasks, Task("log", entry, nonce,
                                     appendEvent_digest(World, entry, nonce)))
    /\ last' = Op("start", [kind |-> "log"], None)
    /\ UNCHANGED <<idbMode, subtle, clock, visible, db, lastHash, state,
                   heartbeat, timers, listeners, idb, ls>>

\* the interval callback starts its appendEvent while the page is visible
StartTick ==
    /\ CanStart
    /\ timers > 0 /\ visible
    /\ \E nonce \in Nonces :
         LET entry == Entry(S_heartbeat, DataPath, now(clock)) IN
         tasks' = Append(tasks, Task("tick", entry, nonce,
                                     appendEvent_digest(World, entry, nonce)))
    /\ last' = Op("start", [kind |-> "tick"], None)
    /\ UNCHANGED <<idbMode, subtle, clock, visible, db, lastHash, state,
                   heartbeat, timers, listeners, idb, ls>>

\* a suspended invocation continues to its next await (or to its return)
Resume(i) ==
    LET k == tasks[i] IN
    /\ CASE k.pc = "digest" ->
              LET w1 == appendEvent_put(World, k.entry, k.nonce, k.hash) IN
              IF db
              THEN /\ Becomes(w1)                       \* await idbPut
                   /\ tasks' = [tasks EXCEPT ![i].pc = "put"]
              ELSE /\ Becomes(appendEvent_commit(w1, k.hash))   \* no await on this path
                   /\ tasks' = [tasks EXCEPT ![i].pc = "meta"]
         [] k.pc = "put" ->
              /\ Becomes(appendEvent_commit(World, k.hash))     \* await saveMeta
              /\ tasks' = [tasks EXCEPT ![i].pc = "meta"]
         [] k.pc = "meta" ->
              /\ Becomes(IF k.kind = "tick" THEN tick_bump(World)
                         ELSE log_bump(World, k.entry.type))
              /\ tasks' = Remove(tasks, i)
    /\ last' = Op("resume", [pc |-> k.pc], None)
    /\ UNCHANGED <<clock, visible>>

ResumeSome == \E i \in 1..Len(tasks) : Resume(i)

InitConc == InitWith({<<"ok", TRUE>>, <<"absent", TRUE>>, <<"absent", FALSE>>}, {NoMeta})

NextConc ==
    \/ CallInit
    \/ StartLog({<<S_xp, DataAmount(5)>>, <<S_click, DataPath>>})
    \/ StartTick
    \/ ResumeSome

SpecConc == InitConc /\ [][NextConc]_vars

\* ---- log calls against storage that may refuse a write
CallLogOn(maxEvents) ==
    /\ Ready
    /\ Len(Store) < maxEvents
    /\ state.events < maxEvents      \* a refused write can leave the store short
    /\ \E in \in LogInputs, nonce \in Nonces, writable \in BOOLEAN \X BOOLEAN :
         LET r == logOn(World, in[1], in[2], now(clock), nonce, writable) IN
           /\ Becomes(r.w)
           /\ last' = Op("logOn", [writable |-> writable, pre |-> Snapshot],
                         [threw |-> r.threw])
    /\ UNCHANGED <<clock, visible, tasks>>

\* indexedDB present, absent from window, or present with open() reporting an error
InitStorage ==
    InitWith({<<"ok", TRUE>>, <<"absent", TRUE>>, <<"error", TRUE>>}, {NoMeta})

NextStorage ==
    \/ CallInit
    \/ CallLogOn(MaxEvents)
    \/ CallVerify
    \/ Reload

SpecStorage == InitStorage /\ [][NextStorage]_vars

\* ---- an appendEvent overlapping a replay (rebuildFromZero, or the replay
\* that ends importLog); at most one appendEvent is in flight
RebuildTask(entries) == [kind |-> "rebuild", entries |-> entries, pc |-> "replay"]

AppendsInFlight == Len(SelectSeq(tasks, LAMBDA k : k.kind \in {"log", "tick"}))
ReplaysInFlight == Len(SelectSeq(tasks, LAMBDA k : k.kind = "rebuild"))

\* the replay reads the entries; with records to recompute it is suspended at
\* the first `await sha256Hex`, with none it runs through to saveMeta
BeginReplay(w) ==
    LET entries == getAll(w) IN
    IF entries = << >>
    THEN Becomes(rebuildOver(w, entries)) /\ UNCHANGED tasks
    ELSE Becomes(w) /\ tasks' = Append(tasks, RebuildTask(entries))

StartRebuild ==
    /\ listeners > 0
    /\ ReplaysInFlight = 0
    /\ BeginReplay(World)
    /\ last' = Op("start", [kind |-> "rebuild"], None)
    /\ UNCHANGED <<clock, visible>>

\* importLog of one record a peer appended on top of the local head
StartImport ==
    /\ listeners > 0
    /\ ReplaysInFlight = 0
    /\ Len(Store) + AppendsInFlight < MaxEvents
    /\ LET json == Json(<<PeerRec(state.rootHash, 0)>>)
           m == mergeFrom(World, json.entries, 1,
                          [prev |-> state.rootHash, merged |-> 0])
       IN BeginReplay(m.w)
    /\ last' = Op("start", [kind |-> "import"], None)
    /\ UNCHANGED <<clock, visible>>

\* the suspended replay runs to its end over the entries it read
ResumeRebuild ==
    /\ \E i \in 1..Len(tasks) :
         /\ tasks[i].kind = "rebuild"
         /\ Becomes(rebuildOver(World, tasks[i].entries))
         /\ tasks' = Remove(tasks, i)
    /\ last' = Op("resume", [pc |-> "replay"], None)
    /\ UNCHANGED <<clock, visible>>

StartAppend ==
    /\ listeners > 0
    /\ AppendsInFlight = 0
    /\ Len(Store) < MaxEvents
    /\ \E in \in {<<S_xp, DataAmount(5)>>}, nonce \in Nonces :
         LET entry == Entry(in[1], in[2], now(clock)) IN
         tasks' = Append(tasks, Task("log", entry, nonce,
                                     appendEvent_digest(World, entry, nonce)))
    /\ last' = Op("start", [kind |-> "log"], None)
    /\ UNCHANGED <<idbMode, subtle, clock, visible, db, lastHash, state,
                   heartbeat, timers, listeners, idb, ls>>

ResumeAppend == \E i \in 1..Len(tasks) : tasks[i].kind \in {"log", "tick"} /\ Resume(i)

InitOverlap == InitWith({<<"ok", TRUE>>, <<"absent", TRUE>>}, {NoMeta})

NextOverlap ==
    \/ CallInit
    \/ StartAppend
    \/ ResumeAppend
    \/ StartRebuild
    \/ StartImport
    \/ ResumeRebuild

SpecOverlap == InitOverlap /\ [][NextOverlap]_vars

\* ---- exportLog while an appendEvent is in flight
\* On the indexed store exportLog is suspended at `await idbGetAll` (line 269)
\* and reads state after it; on the fallback lsRead and the rest run at once.
ExportTask == [kind |-> "export", pc |-> "read"]

StartExport ==
    /\ listeners > 0
    /\ \A i \in 1..Len(tasks) : tasks[i].kind # "export"
    /\ IF db
       THEN /\ tasks' = Append(tasks, ExportTask)
            /\ last' = Op("start", [kind |-> "export"], None)
       ELSE /\ UNCHANGED tasks
            /\ last' = Op("exportLog", None, exportLog(World))
    /\ UNCHANGED <<idbMode, subtle, clock, visible, db, lastHash, state,
                   heartbeat, timers, listeners, idb, ls>>

\* The getAll request is served and exportLog runs to its return.  Requests
\* on the events store complete in the order they were made, so a put that
\* has been served has had its continuation (line 201) run before this one.
ResumeExport ==
    /\ \E i \in 1..Len(tasks) :
         /\ tasks[i].kind = "export"
         /\ tasks' = Remove(tasks, i)
    /\ \A j \in 1..Len(tasks) : tasks[j].pc # "put"
    /\ last' = Op("exportLog", None, exportLog(World))
    /\ UNCHANGED <<idbMode, subtle, clock, visible, db, lastHash, state,
                   heartbeat, timers, listeners, idb, ls>>

InitExport == InitWith({<<"ok", TRUE>>, <<"absent", TRUE>>}, {NoMeta})

NextExport ==
    \/ CallInit
    \/ StartAppend
    \/ ResumeAppend
    \/ StartExport
    \/ ResumeExport
    \/ CallImport(MaxEvents)

SpecExport == InitExport /\ [][NextExport]_vars

\* ---- log("xp", {amount}) with whatever number the host passes
AnyAmounts == {-5, 0, 3}

InitAmount == InitWith({<<"ok", TRUE>>, <<"absent", TRUE>>}, {NoMeta})

NextAmount ==
    \/ CallInit
    \/ CallLog({<<S_xp, DataAmount(n)>> : n \in AnyAmounts}, MaxEvents)
    \/ CallRebuild
    \/ Reload

SpecAmount == InitAmount /\ [][NextAmount]_vars

\* ---- the heartbeat timer while the page goes hidden and visible
InitHeartbeat == InitWith({<<"ok", TRUE>>, <<"absent", TRUE>>}, {NoMeta})

NextHeartbeat ==
    \/ CallInit
    \/ CallLog({<<S_heartbeat, DataNone>>, <<S_click, DataPath>>}, MaxEvents)
    \/ Tick(MaxEvents)
    \/ Reload
    \/ VisibilityChange(MaxEvents)

SpecHeartbeat == InitHeartbeat /\ [][NextHeartbeat]_vars

\* ---- init called more than once on one page load
\* Every init adds a visibilitychange listener (line 261: a fresh arrow
\* function each time, so none replaces another) and restarts the interval.
CallInitAgain ==
    /\ tasks = << >>
    /\ listeners < MaxInits
    /\ LET r == init(World) IN
         /\ Becomes(r.w)
         /\ last' = Op("init", getMeta([World EXCEPT !.db = openDB(World).db]), r.res)
    /\ UNCHANGED <<clock, visible, tasks>>

\* n invocations of log('focus', {path}) made one after another without an
\* await in between: each runs up to `await sha256Hex` (line 195)
RECURSIVE FocusTasks(_)
FocusTasks(n) ==
    IF n = 0 THEN << >>
    ELSE LET entry == Entry(S_focus, DataPath, now(clock))
             nonce == CHOOSE x \in Nonces : TRUE
         IN Append(FocusTasks(n - 1),
                   Task("log", entry, nonce, appendEvent_digest(World, entry, nonce)))

\* visibilitychange is dispatched: every registered listener runs, and each
\* calls log('focus') when the document has become visible
VisibilityDispatch ==
    /\ listeners > 0
    /\ tasks = << >>
    /\ visible' = ~visible
    /\ visible' => Len(Store) + listeners <= MaxEvents
    /\ tasks' = IF visible' THEN FocusTasks(listeners) ELSE << >>
    /\ last' = Op("visibility", [visible |-> visible'], None)
    /\ UNCHANGED <<idbMode, subtle, clock, db, lastHash, state,
                   heartbeat, timers, listeners, idb, ls>>

InitInits == InitWith({<<"ok", TRUE>>, <<"absent", TRUE>>}, {NoMeta})

NextInits ==
    \/ CallInitAgain
    \/ Tick(MaxEvents)
    \/ VisibilityDispatch
    \/ ResumeSome

SpecInits == InitInits /\ [][NextInits]_vars

\* ==================================================================== claims
\* ---- derived state as the documentation defines it, independent of the loop
\* the records verify() accepts: the whole store, or those before errorIndex
ValidPrefix(w) ==
    LET v == verify(w) IN
    IF v.ok THEN getAll(w) ELSE SubSeq(getAll(w), 1, v.errorIndex)

\* "xp" contributes data.amount or 1, "heartbeat" 0.1, any other type 0 (tenths)
Contribution(e) ==
    IF e.type = S_xp
    THEN (IF e.data.kind = "amount" /\ e.data.amount # 0 THEN 10 * e.data.amount ELSE 10)
    ELSE IF e.type = S_heartbeat THEN 1 ELSE 0

RECURSIVE AccrualTenths(_)
AccrualTenths(es) ==
    IF es = << >> THEN 0 ELSE Contribution(Head(es)) + AccrualTenths(Tail(es))

DayOf(e) == SubSeq(e.t, 1, 10)

DistinctDays(es) == Cardinality({DayOf(es[i]) : i \in 1..Len(es)})

\* records that open a run of equal days
DayRuns(es) ==
    Cardinality({i \in 1..Len(es) : i = 1 \/ DayOf(es[i]) # DayOf(es[i - 1])})

HeadOf(es) == IF es = << >> THEN GENESIS ELSE es[Len(es)].hash

\* xp, streak, rootHash and events as a replay of the store defines them
Derived(w) ==
    LET p == ValidPrefix(w) IN
    [xp |-> round(AccrualTenths(p)), streak |-> DayRuns(p),
     rootHash |-> HeadOf(p), events |-> Len(getAll(w))]

Observed(st) ==
    [xp |-> st.xp, streak |-> st.streak, rootHash |-> st.rootHash, events |-> st.events]

Linked(subtle_, es) ==
    /\ es # << >> => es[1].prev = GENESIS
    /\ \A i \in 2..Len(es) : es[i].prev = es[i - 1].hash
    /\ \A i \in 1..Len(es) :
         es[i].hash = sha256Hex(subtle_, es[i].prev \o S_bar \o stringify(es[i])
                                          \o S_bar \o es[i].nonce)

\* C1: from an empty store, after any number of log calls and heartbeat
\* appends run one after another, verify() returns ok:true: the first record
\* has prev GENESIS, each later prev is the hash of the record before it, and
\* each hash is digest(prev + "|" + payload + "|" + nonce).
C1_AppendsVerify ==
    /\ verify(World).ok
    /\ verify(World).errorIndex = NoIndex
    /\ Linked(subtle, Store)

C1_Witness ==
    /\ Len(Store) >= 2
    /\ \E i \in 1..Len(Store) : Store[i].type = S_heartbeat /\ Store[i].data = DataPath
    /\ \E i \in 1..Len(Store) : Store[i].type = S_xp
    /\ last.op = "verify" /\ last.res.ok

\* C4: exportLog() followed by importLog() of the result into a fresh engine
\* over an empty store gives that engine the exporting engine's xp, streak,
\* rootHash and events.
C4_RoundTrip ==
    last.op = "roundTrip" => Observed(last.res) = Observed(last.arg)

\* C5 (as claimed): a foreign sequence whose first record's prev differs from
\* the local head is merged with count 0, stores nothing and leaves getState()
\* as it was.
C5_FirstPrevDiffers ==
    (/\ last.op = "importLog"
     /\ last.arg.json.hasEntries
     /\ last.arg.json.entries # << >>
     /\ last.arg.json.entries[1].prev # last.arg.pre.state.rootHash)
    => /\ last.res.merged = 0
       /\ Store = last.arg.pre.store
       /\ Observed(state) = Observed(last.arg.pre.state)

\* C5 (amended): when no record of the foreign sequence has prev equal to the
\* local head, importLog returns merged = 0 and stores nothing, and getState()
\* afterwards is what a replay of the unchanged store gives.
C5_NoRecordExtends ==
    (/\ last.op = "importLog"
     /\ last.arg.json.hasEntries
     /\ \A i \in 1..Len(last.arg.json.entries) :
          last.arg.json.entries[i].prev # last.arg.pre.state.rootHash)
    => /\ last.res = [ok |-> TRUE, merged |-> 0]
       /\ Store = last.arg.pre.store
       /\ Observed(state) = Derived(World)

C5_Witness ==
    /\ last.op = "importLog"
    /\ last.arg.json.hasEntries
    /\ last.arg.json.entries # << >>
    /\ \A i \in 1..Len(last.arg.json.entries) :
         last.arg.json.entries[i].prev # last.arg.pre.state.rootHash
    /\ Store # << >>
    /\ last.res.merged = 0

\* C6: importLog with an absent payload or one without entries returns
\* {ok:false, merged:0} and changes neither the stored records, the metadata
\* slot, lastHash nor the derived state (no replay is run).
C6_MalformedImport ==
    (last.op = "importLog" /\ (~last.arg.json.present \/ ~last.arg.json.hasEntries))
    => /\ last.res = [ok |-> FALSE, merged |-> 0]
       /\ Snapshot = last.arg.pre

\* a malformed import in a state that a replay would have changed
C6_Witness ==
    /\ last.op = "importLog"
    /\ ~last.arg.json.hasEntries
    /\ last.res.ok = FALSE
    /\ Observed(state) # Derived(World)

\* C7: after log calls from an empty chain, getState().xp is the rounded
\* accrual total of the logged records and events their number.
C7_LogAccrual ==
    last.op = "log"
    => /\ state.xp = round(AccrualTenths(Store))
       /\ state.events = Len(Store)

\* C9: after init, xp, streak, rootHash and events are determined by the
\* stored records alone, whatever the metadata slot held; with zero records
\* they are GENESIS, 0, 0 and 0.
C9_InitFromStore ==
    (last.op = "init" /\ last.res.ok)
    => /\ Observed(state) = Derived(World)
       /\ lastHash = state.rootHash
       /\ Store = << >> =>
            Observed(state) = [xp |-> 0, streak |-> 0, rootHash |-> GENESIS, events |-> 0]

\* init over zero records while the slot held a snapshot a replay contradicts
C9_Witness ==
    /\ last.op = "init" /\ last.res.ok
    /\ Store = << >>
    /\ last.arg.present
    /\ last.arg.state.xp # 0 /\ last.arg.lastHash # GENESIS
    /\ state.rootHash = GENESIS

\* C10: rebuildFromZero run twice in a row leaves xp, streak, rootHash, events,
\* lastHash and the persisted metadata after the second run as after the first.
C10_RebuildIdempotent ==
    (last.op = "rebuildFromZero" /\ last.arg.prevOp = "rebuildFromZero")
    => Snapshot = last.arg.pre

C10_Witness ==
    /\ last.op = "rebuildFromZero" /\ last.arg.prevOp = "rebuildFromZero"
    /\ verify(World).ok
    /\ Len(Store) >= 2
    /\ state.xp > 0 /\ state.streak > 0


\* C2: overlapping appendEvent invocations are mutually excluded, so that once
\* they have completed the stored records form one linked chain and verify()
\* returns ok:true.
C2_OverlapKeepsChain ==
    tasks = << >> => verify(World).ok /\ Linked(subtle, Store)

\* C3 (as claimed): on any valid chain, changing type, data, t or nonce of the
\* record at position i and leaving its hash makes verify() return ok:false
\* with errorIndex i.
C3_TamperDetected ==
    last.op = "tamper" => verify(World) = [ok |-> FALSE, errorIndex |-> last.arg.index]

\* C3 (amended): the same, when the SHA-256 digest is in use.
C3_TamperDetectedSha ==
    (last.op = "tamper" /\ subtle)
    => verify(World) = [ok |-> FALSE, errorIndex |-> last.arg.index]

C3_Witness ==
    /\ last.op = "tamper" /\ subtle
    /\ last.arg.index = 1
    /\ Store[2].nonce # last.arg.before.nonce
    /\ Store[2].hash = last.arg.before.hash
    /\ ~verify(World).ok

Grouped(es) ==
    \A i, j, k \in 1..Len(es) :
        (i < j /\ j < k /\ DayOf(es[i]) = DayOf(es[k])) => DayOf(es[j]) = DayOf(es[i])

\* C8 (as claimed): after rebuildFromZero on a valid chain, streak is the
\* number of distinct UTC days among the stored records, in any stored order.
C8_StreakDistinctDays ==
    (last.op = "rebuildFromZero" /\ last.res.ok)
    => state.streak = DistinctDays(Store)

\* C8 (amended): after rebuildFromZero on a valid chain, streak is the number
\* of records whose day differs from the day of the record before them (the
\* first record counts); that is the number of distinct days whenever the
\* records of each day are adjacent in stored order.
C8_StreakDayRuns ==
    (last.op = "rebuildFromZero" /\ last.res.ok)
    => /\ state.streak = DayRuns(Store)
       /\ Grouped(Store) => state.streak = DistinctDays(Store)

\* three records on one date and a fourth on the next: streak 2
C8_Witness ==
    /\ last.op = "rebuildFromZero" /\ last.res.ok
    /\ Len(Store) = 4
    /\ DayOf(Store[1]) = DayOf(Store[3]) /\ DayOf(Store[2]) = DayOf(Store[1])
    /\ DayOf(Store[4]) = SubSeq(now(13), 1, 10)
    /\ DayOf(Store[1]) = SubSeq(now(12), 1, 10)
    /\ state.streak = 2

\* ---- the audit, storage failure, backend selection
\* C11: verify() is a read-only audit: over every store content, valid or
\* corrupted, a verify() call leaves the stored records, the metadata slot,
\* lastHash and the derived state unchanged.
C11_VerifyReadOnly ==
    [][last'.op = "verify" => UNCHANGED <<idb, ls, lastHash, state>>]_vars

\* verify() has run over a corrupted store whose live state a replay would change
C11_Witness ==
    /\ last.op = "verify"
    /\ ~last.res.ok
    /\ Store # << >>
    /\ Observed(state) # Derived(World)

\* C12: appendEvent is atomic with respect to storage failure on both backends:
\* either the record is stored and the head and the event count advance, or
\* the call fails and the stored records, lastHash, rootHash and events are
\* unchanged; the head never advances for a record that was not stored.
C12_AppendAtomic ==
    last.op = "logOn" =>
      LET pre == last.arg.pre IN
      \/ /\ Len(Store) = Len(pre.store) + 1
         /\ SubSeq(Store, 1, Len(pre.store)) = pre.store
         /\ lastHash = Store[Len(Store)].hash
         /\ state.rootHash = lastHash
         /\ state.events = pre.state.events + 1
      \/ /\ last.res.threw
         /\ Store = pre.store
         /\ lastHash = pre.lastHash
         /\ state.rootHash = pre.state.rootHash
         /\ state.events = pre.state.events

\* C13: when the indexed store cannot be opened (absent, or open() reports an
\* error), init selects the fallback backend and completes successfully, and
\* the log calls that follow store their records through the fallback.
C13_FallbackOnOpenFailure ==
    /\ (last.op = "init" /\ idbMode # "ok") =>
          /\ last.res.ok
          /\ ~db
          /\ heartbeat /\ listeners > 0
    /\ (last.op = "logOn" /\ idbMode # "ok" /\ last.arg.writable = <<TRUE, TRUE>>) =>
          /\ ls.events = Append(last.arg.pre.store, ls.events[Len(ls.events)])
          /\ ls.events[Len(ls.events)].hash = lastHash

\* ---- the stored sequence
IsPrefix(a, b) == Len(a) <= Len(b) /\ SubSeq(b, 1, Len(a)) = a

\* C14: stored records are append-only: no operation changes or removes a
\* record already stored, so the stored sequence before any operation is a
\* prefix of the stored sequence after it, also for importLog on the indexed
\* store when foreign records carry their own id key.
C14_AppendOnly ==
    [][/\ IsPrefix(idb.events, idb'.events)
       /\ IsPrefix(ls.events, ls'.events)]_vars

\* C15: rebuildFromZero on a store whose first integrity mismatch is at index i
\* stops at i, returns ok = false together with the failing index i, and
\* leaves the stored records unchanged.
C15_RebuildReportsIndex ==
    (last.op = "rebuildFromZero" /\ ~verify(World).ok) =>
       /\ Store = last.arg.pre.store
       /\ Observed(state) = Derived(World)
       /\ ~last.res.ok
       /\ "errorIndex" \in DOMAIN last.res
       /\ last.res.errorIndex = verify(World).errorIndex

\* ---- the heartbeat
\* the sequence gained a record of the interval callback (type heartbeat, data {path})
HeartbeatAdded(es, es2) ==
    /\ Len(es2) > Len(es)
    /\ es2[Len(es2)].type = S_heartbeat
    /\ es2[Len(es2)].data = DataPath

\* C16: a heartbeat record is appended only by a timer tick that fires while
\* the host is visible: a tick that fires while the host is not visible
\* appends nothing and leaves stored records, chain head and derived state
\* unchanged.
C16_HeartbeatOnlyWhenVisible ==
    [][/\ (last'.op = "tick" /\ ~visible) => UNCHANGED <<idb, ls, lastHash, state>>
       /\ (HeartbeatAdded(idb.events, idb'.events) \/ HeartbeatAdded(ls.events, ls'.events))
            => (last'.op = "tick" /\ visible)]_vars

\* a tick has fired while the host was hidden, over a store that holds a record
C16_Witness ==
    /\ last.op = "tick"
    /\ ~last.arg.visible
    /\ ~visible
    /\ timers > 0
    /\ Store # << >>

\* ---- operations that overlap
\* C17: an appendEvent that overlaps a rebuildFromZero or an importLog does
\* not corrupt the chain: once all of them have completed on a chain that was
\* valid before, lastHash is the hash of the last stored record, events is the
\* number of stored records, and verify() returns ok:true after one further
\* appendEvent.
C17_OverlapWithReplay ==
    (tasks = << >> /\ listeners > 0) =>
       /\ lastHash = HeadOf(Store)
       /\ state.events = Len(Store)
       /\ verify(appendEvent(World, Entry(S_click, DataPath, now(clock)), <<107, 51>>)).ok

\* ---- head and count
\* C18: in every state with no operation in flight, reached by init, log,
\* heartbeat, importLog and rebuildFromZero calls run one after another,
\* rootHash equals lastHash and the hash of the last stored record (GENESIS
\* when no record is stored), and events equals the number of stored records.
C18_HeadIsLastRecord ==
    Ready =>
       /\ state.rootHash = lastHash
       /\ lastHash = HeadOf(Store)
       /\ state.events = Len(Store)

\* ---- exportLog
\* C19: exportLog returns a self-consistent snapshot: rootHash is the hash of
\* the last record of the returned entries (GENESIS when entries is empty) and
\* summary.entries is the length of entries, also when an appendEvent
\* completes while exportLog is suspended reading the store.
C19_ExportConsistent ==
    last.op = "exportLog" =>
       /\ last.res.rootHash = HeadOf(last.res.entries)
       /\ last.res.summary.entries = Len(last.res.entries)

\* ---- experience points
\* C20: xp returned by getState() is non-negative in every reachable state,
\* for every data.amount a logged or imported "xp" record may carry.
C20_XpNonNegative ==
    getState(World).xp >= 0

\* ---- importLog and chain validity
\* C21: importLog preserves chain validity: if verify() returns ok:true before
\* importLog, then for every foreign entries sequence verify() returns ok:true
\* after importLog returns, so a result with ok:true never leaves a local
\* chain that fails verification.
C21_ImportKeepsValid ==
    (/\ last.op = "importLog"
     /\ verifyFrom(subtle, last.arg.pre.store, 1, GENESIS).ok)
    => verify(World).ok

\* ---- repeated init
\* C22: after any number of init calls on the same engine, event emission is
\* not duplicated: at most one heartbeat timer is active, and each transition
\* of the host to visible appends exactly one "focus" record (one log('focus')
\* invocation is made, and each invocation appends one record).
C22_NoDuplicateEmission ==
    /\ timers <= 1
    /\ (last.op = "visibility" /\ last.arg.visible) => Len(tasks) = 1

====
